---- MODULE Spec2Model ----
(***************************************************************************)
(* Event discovery pipeline of the campus-events application (FeedScreen): *)
(* visibility merge, category filter, geo filter, sort, and the React      *)
(* coordinator that re-runs them.  Both revisions of FeedScreen that the   *)
(* repository holds are modelled; `revision' selects one at construction.  *)
(*                                                                         *)
(* Units: coordinates are in hundredths of a degree, distances and radii   *)
(* in tenths of a mile, times in days.                                     *)
(***************************************************************************)
EXTENDS Integers, Sequences, FiniteSets

\* ------------------------------------------------------------------ bounds
NumEvents == 6        \* rows of the backend `events' table
MaxInFlight == 2      \* fetchEvents calls awaiting a response
MaxLocPending == 1    \* stand-alone getUserLocation calls awaiting a response
MaxActions == 2       \* user actions (focus, refresh, filter changes) after the mount
MaxLen == 3           \* length of the lists handed to applyFiltersAndSort alone
MaxCoord == 3         \* coordinates handed to calculateDistance alone, either sign
MaxMapInFlight == 3   \* map screen: fetchEvents calls awaiting the backend
MaxMapLocating == 1   \* map screen: getLocation / geocodeAsync calls awaiting a result
MaxMapActions == 3    \* map screen: user actions after the mount
MaxHomeInFlight == 3  \* home screen: fetchEvents calls awaiting the backend
MaxHomeActions == 3   \* home screen: user actions after the mount
NumSessions == 2      \* app root: distinct sessions the auth client can hold
MaxAuthChanges == 3   \* app root: sign-ins, sign-outs and token refreshes
MaxFormActions == 4   \* create-event screen: edits of the form
MaxFormSubmits == 2   \* create-event screen: presses of the submit button
Today == 1            \* local midnight of the current day

\* --------------------------------------------------------- program constants
CATEGORIES == <<"ALL", "FOOD", "CONCERT", "SPORTS", "ACADEMIC", "OTHER">>
SORT_OPTIONS == <<"RECENT", "POPULAR", "NEARBY">>
DISTANCE_OPTIONS(rev) ==
  IF rev = 1 THEN <<5, 10, 20, 50, 100>> ELSE <<5, 10, 20, 50>>
DefaultDistance == 50

NoUniversity == "null"
\* profiles.university of the signed-in user
ProfileUniversity == "MIT"

Min(a, b) == IF a < b THEN a ELSE b
Range(s) == {s[i] : i \in 1..Len(s)}
\* the category pills pressed in the behaviours of the screen
SelectableCategories == {"ALL", "FOOD", "CONCERT"}

\* ------------------------------------------------------------ backend rows
\* FreeEvent rows, indexed by id.  A location is absent (present = FALSE),
\* present with a non-numeric coordinate (numeric = FALSE), or a coordinate.
Loc(lat, lon) == [present |-> TRUE, numeric |-> TRUE, latitude |-> lat, longitude |-> lon]
NullLocation == [present |-> FALSE, numeric |-> FALSE, latitude |-> 0, longitude |-> 0]
BadLocation == [present |-> TRUE, numeric |-> FALSE, latitude |-> 0, longitude |-> 0]

EventTable ==
  << [category |-> "FOOD",    university |-> "MIT",        created_at |-> 2, start_date |-> 2, location |-> Loc(1, 1)],
     [category |-> "SPORTS",  university |-> NoUniversity, created_at |-> 3, start_date |-> 3, location |-> Loc(0, 5)],
     [category |-> "FOOD",    university |-> "Harvard",    created_at |-> 1, start_date |-> 4, location |-> Loc(0, 9)],
     [category |-> "CONCERT", university |-> NoUniversity, created_at |-> 3, start_date |-> 2, location |-> NullLocation],
     [category |-> "FOOD",    university |-> NoUniversity, created_at |-> 1, start_date |-> 3, location |-> BadLocation],
     [category |-> "SPORTS",  university |-> NoUniversity, created_at |-> 2, start_date |-> 0, location |-> Loc(0, 0)],
     [category |-> "FOOD",    university |-> "MIT",        created_at |-> 4, start_date |-> 5, location |-> Loc(12, 12)],
     [category |-> "CONCERT", university |-> "Harvard",    created_at |-> 4, start_date |-> 1, location |-> Loc(2, 0)] >>

EventIds == 1..Min(NumEvents, Len(EventTable))
\* the tables the screen is run against: the first three rows, or all of them
Backends == {1..3, EventIds}
Ev(e) == EventTable[e]

\* positions, 0 stands for "no location" (null)
Position(k) == [latitude |-> 0, longitude |-> 4 * (k - 1)]
Positions == {1, 2}
\* what Location.getCurrentPositionAsync returns in the behaviours of the screen
DevicePositions == {1}

\* ---------------------------------------------------------------- distance
HaversineScale == 4774

\* smallest k with k*k*100 >= n
CeilSqrt100(n) == CHOOSE k \in 0..400 : k * k * 100 >= n /\ (k = 0 \/ (k - 1) * (k - 1) * 100 < n)

\* variant: dLon taken as lon2 alone
calculateDistanceLonFromZero(lat1, lon1, lat2, lon2) ==
  LET dLat == lat2 - lat1
      dLon == lon2
      a == dLat * dLat + dLon * dLon
  IN CeilSqrt100(HaversineScale * a)

\* R * c of the haversine formula, in tenths of a mile rounded up.  For the
\* coordinates of the model (within 0.2 degree of the equator) cos(lat) is 1
\* and sin(x), atan2(sqrt a, sqrt(1-a)) are x and sqrt a to the precision kept,
\* so R*c = R * (pi/180) * sqrt(dLat^2 + dLon^2); HaversineScale is
\* (39588 * pi / 18000)^2 * 100 for coordinates in hundredths of a degree.
calculateDistance(lat1, lon1, lat2, lon2) ==
  LET dLat == lat2 - lat1
      dLon == lon2 - lon1
      a == dLat * dLat + dLon * dLon
  IN CeilSqrt100(HaversineScale * a)

\* ------------------------------------------------------- filter and sort
\* variant: the typeof checks left out
ValidCoordinatePresentOnly(e) == Ev(e).location.present

\* event.location && typeof latitude === 'number' && typeof longitude === 'number'
ValidCoordinate(e) == Ev(e).location.present /\ Ev(e).location.numeric

DistanceFrom(loc, e) ==
  calculateDistance(Position(loc).latitude, Position(loc).longitude,
                    Ev(e).location.latitude, Ev(e).location.longitude)

\* variant: the `!== 'ALL'' test left out
CategoryStageNoAllCase(evs, cat) == SelectSeq(evs, LAMBDA e : Ev(e).category = cat)

\* variant: the comparison of the filter callback negated
CategoryStageComplement(evs, cat) ==
  IF cat # "ALL" THEN SelectSeq(evs, LAMBDA e : Ev(e).category # cat) ELSE evs

\* variant: the filter skips the first element of its input
CategoryStageSkipsFirst(evs, cat) ==
  IF cat # "ALL" /\ evs # <<>>
  THEN SelectSeq(Tail(evs), LAMBDA e : Ev(e).category = cat)
  ELSE evs

CategoryStage(evs, cat) ==
  IF cat # "ALL" THEN SelectSeq(evs, LAMBDA e : Ev(e).category = cat) ELSE evs

\* variant: the comparison with selectedDistance left out
WithinRadiusAnyDistance(e, dist, loc) == ValidCoordinate(e)

\* the predicate of the distance filter
WithinRadius(e, dist, loc) == ValidCoordinate(e) /\ DistanceFrom(loc, e) <= dist

\* does the geo stage of this revision run Array.filter?
GeoApplies(rev, sort, loc) ==
  IF rev = 1 THEN loc # 0 /\ sort = "NEARBY" ELSE loc # 0

GeoStage(rev, evs, sort, dist, loc) ==
  IF rev = 1
  THEN IF loc # 0 /\ sort = "NEARBY"
       THEN SelectSeq(evs, LAMBDA e : WithinRadius(e, dist, loc))
       ELSE evs
  ELSE IF loc # 0 /\ sort # "NEARBY"
       THEN SelectSeq(evs, LAMBDA e : WithinRadius(e, dist, loc))
       ELSE IF loc # 0 /\ sort = "NEARBY"
            THEN SelectSeq(evs, LAMBDA e : ValidCoordinate(e))
            ELSE evs

\* variant: NEARBY returns distanceB - distanceA
CompareNearbyFarthestFirst(sort, loc, a, b) ==
  CASE sort = "RECENT" -> Ev(b).created_at - Ev(a).created_at
    [] sort = "POPULAR" -> Ev(a).start_date - Ev(b).start_date
    [] OTHER -> IF ~Ev(a).location.present \/ ~Ev(b).location.present
                THEN 0
                ELSE DistanceFrom(loc, b) - DistanceFrom(loc, a)

\* variant: POPULAR orders by creation time, newest first
ComparePopularByCreation(sort, loc, a, b) ==
  CASE sort = "RECENT" -> Ev(b).created_at - Ev(a).created_at
    [] sort = "POPULAR" -> Ev(b).created_at - Ev(a).created_at
    [] OTHER -> IF ~Ev(a).location.present \/ ~Ev(b).location.present
                THEN 0
                ELSE DistanceFrom(loc, a) - DistanceFrom(loc, b)

\* variant: RECENT and POPULAR never report equal keys
CompareNeverEqual(sort, loc, a, b) ==
  CASE sort = "RECENT" ->
         IF Ev(b).created_at = Ev(a).created_at THEN 1
         ELSE Ev(b).created_at - Ev(a).created_at
    [] sort = "POPULAR" ->
         IF Ev(a).start_date = Ev(b).start_date THEN 1
         ELSE Ev(a).start_date - Ev(b).start_date
    [] OTHER -> IF ~Ev(a).location.present \/ ~Ev(b).location.present
                THEN 0
                ELSE DistanceFrom(loc, a) - DistanceFrom(loc, b)

\* the comparator handed to Array.prototype.sort
Compare(sort, loc, a, b) ==
  CASE sort = "RECENT" -> Ev(b).created_at - Ev(a).created_at
    [] sort = "POPULAR" -> Ev(a).start_date - Ev(b).start_date
    [] OTHER -> IF ~Ev(a).location.present \/ ~Ev(b).location.present
                THEN 0
                ELSE DistanceFrom(loc, a) - DistanceFrom(loc, b)

\* the greatest index of a set of indexes, 0 for none
LastIndex(keep) ==
  IF keep = {} THEN 0 ELSE CHOOSE i \in keep : \A j \in keep : j <= i

InsertAfter(s, x, k) == SubSeq(s, 1, k) \o <<x>> \o SubSeq(s, k + 1, Len(s))

\* variant: x goes before the elements it compares equal to
InsertSortedBeforeTies(s, x, sort, loc) ==
  InsertAfter(s, x, LastIndex({i \in 1..Len(s) : Compare(sort, loc, s[i], x) < 0}))

\* stable insertion of x into s
InsertSorted(s, x, sort, loc) ==
  InsertAfter(s, x, LastIndex({i \in 1..Len(s) : Compare(sort, loc, s[i], x) <= 0}))

RECURSIVE StableSort(_, _, _)
StableSort(evs, sort, loc) ==
  IF evs = <<>> THEN <<>>
  ELSE InsertSorted(StableSort(SubSeq(evs, 1, Len(evs) - 1), sort, loc),
                    evs[Len(evs)], sort, loc)

\* variant: NEARBY sorts without the `if (userLocation)' guard
SortStageUnguarded(evs, sort, loc) == StableSort(evs, sort, loc)

\* switch (selectedSortOption)
SortStage(evs, sort, loc) ==
  IF sort = "NEARBY" /\ loc = 0 THEN evs ELSE StableSort(evs, sort, loc)

\* applyFiltersAndSort(eventsToFilter) under the state its closure captured.
\* output: the array handed to setFilteredEvents; input: the contents of the
\* eventsToFilter array after the call (Array.sort works in place, and
\* `filtered' is the argument itself when no Array.filter ran); filtered: the
\* contents of `filtered' when the switch over the sort option is entered.
Returned(evs, filtered, sorted, copied) ==
  [output |-> sorted, input |-> IF copied THEN evs ELSE sorted, filtered |-> filtered]

\* the switch over the sort option, entered with `filtered'
Switch(evs, filtered, sort, loc, copied) ==
  Returned(evs, filtered, SortStage(filtered, sort, loc), copied)

\* variant: the switch over the sort option comes before the geo filter
applyFiltersAndSortSortFirst(rev, evs, cat, sort, dist, loc) ==
  Returned(evs, CategoryStage(evs, cat),
           GeoStage(rev, SortStage(CategoryStage(evs, cat), sort, loc), sort, dist, loc),
           cat # "ALL" \/ GeoApplies(rev, sort, loc))

applyFiltersAndSort(rev, evs, cat, sort, dist, loc) ==
  Switch(evs, GeoStage(rev, CategoryStage(evs, cat), sort, dist, loc), sort, loc,
         cat # "ALL" \/ GeoApplies(rev, sort, loc))

\* -------------------------------------------------------------------- state
VARIABLES
  revision,            \* which FeedScreen revision is mounted (1 or 2)
  backend,             \* ids of the rows the `events' table holds
  events,              \* useState: raw event set (sequence of ids)
  filteredEvents,      \* useState: list handed to the FlatList
  loading,             \* useState
  selectedCategory,    \* useState
  selectedSortOption,  \* useState
  selectedDistance,    \* useState
  userUniversity,      \* useState
  userLocation,        \* useState: 0 (null) or a position
  fetches,             \* fetchEvents calls in flight, in start order
  locPending,          \* stand-alone getUserLocation calls in flight
  actions,             \* user actions taken so far
  lastFetch,           \* how the step just taken ended a fetchEvents call, if it did
  run,                 \* one applyFiltersAndSort call taken alone: arguments and result
  measure,             \* one pair of calculateDistance calls taken alone
  mapEvents,           \* MapScreen useState events: ids of the markers shown
  mapUserLocation,     \* MapScreen useState userLocation: 0 (null) or a position
  mapFetches,          \* MapScreen fetchEvents calls in flight: the location each captured
  mapLocating,         \* MapScreen getLocation / searchLocation calls in flight
  mapStarted,          \* MapScreen: has a fetchEvents call been issued
  mapActions,          \* MapScreen: user actions taken so far
  homeEvents,          \* HomeScreen useState events: ids of the events shown
  homeCategory,        \* HomeScreen useState selectedCategory
  homeUserUniversity,  \* HomeScreen useState userUniversity
  homeLoading,         \* HomeScreen useState loading
  homeFetches,         \* HomeScreen fetchEvents calls in flight: the state each captured
  homeActions,         \* HomeScreen: user actions taken so far
  session,             \* AppComponent useState session (NoSession for null)
  mounted,             \* AppComponent: the stack its last render mounted
  authSession,         \* the auth client's current session
  getSession,          \* the getSession() call of the mount effect
  authEvents,          \* auth events not yet delivered to the onAuthStateChange callback
  lastAuthEvent,       \* the session of the last event delivered
  authChanges,         \* changes of the auth client's session so far
  formRevision,        \* CreateEventScreen: 1 = FeedScreen.tsx, 2 = part_004
  formFields,          \* CreateEventScreen useState title, description, category, startDate, location
  formLoading,         \* CreateEventScreen useState loading
  formCall,            \* the handleSubmit call in flight: its position and what it captured
  formInserts,         \* event inserts issued so far
  formOutcome,         \* how the last handleSubmit call ended
  formNavigated,       \* where the last handleSubmit call navigated
  formActions,         \* edits of the form so far
  formSubmits          \* presses of the submit button so far

\* the state of the feed screen
feedVars == <<revision, backend, events, filteredEvents, loading, selectedCategory,
          selectedSortOption, selectedDistance, userUniversity, userLocation,
          fetches, locPending, actions, lastFetch, run>>

\* the state of the map screen
mapVars == <<mapEvents, mapUserLocation, mapFetches, mapLocating, mapStarted, mapActions>>

\* the state of the home screen
homeVars == <<homeEvents, homeCategory, homeUserUniversity, homeLoading, homeFetches,
              homeActions>>

\* the state of the app root
appVars == <<session, mounted, authSession, getSession, authEvents, lastAuthEvent,
             authChanges>>

\* the state of the create-event screen
formVars == <<formRevision, formFields, formLoading, formCall, formInserts, formOutcome,
              formNavigated, formActions, formSubmits>>

\* the state outside the feed screen, outside the distance function, outside
\* the map screen, outside the home screen, outside the app root, outside the
\* create-event screen
outsideFeed == <<measure, mapVars, homeVars, appVars, formVars>>
outsideDistance == <<feedVars, mapVars, homeVars, appVars, formVars>>
outsideMap == <<feedVars, measure, homeVars, appVars, formVars>>
outsideHome == <<feedVars, measure, mapVars, appVars, formVars>>
outsideApp == <<feedVars, measure, mapVars, homeVars, formVars>>
outsideForm == <<feedVars, measure, mapVars, homeVars, appVars>>

vars == <<feedVars, outsideFeed>>

\* ---------------------------------------------------------- backend queries
RECURSIVE Ascending(_)
\* rows of a set of ids in the order the table returns them
Ascending(S) ==
  IF S = {} THEN <<>>
  ELSE LET m == CHOOSE x \in S : \A y \in S : x <= y
       IN <<m>> \o Ascending(S \ {m})

\* from('events').select('*').gte('start_date', today) [.eq('university', u)]
UniversityQuery(univ) ==
  Ascending({e \in backend : Ev(e).start_date >= Today
                              /\ (univ # NoUniversity => Ev(e).university = univ)})

\* variant: the public query without its gte('start_date', today)
PublicQueryAnyDate ==
  Ascending({e \in backend : Ev(e).university = NoUniversity})

\* from('events').select('*').gte('start_date', today).is('university', null)
PublicQuery ==
  Ascending({e \in backend : Ev(e).start_date >= Today
                              /\ Ev(e).university = NoUniversity})

\* variant: one failed query discards the result of the other
CombinedEventsAllOrNothing(univ, uniOk, pubOk) ==
  IF uniOk /\ pubOk THEN UniversityQuery(univ) \o PublicQuery ELSE <<>>

\* [...(universityResult.data || []), ...(publicResult.data || [])]
CombinedEvents(univ, uniOk, pubOk) ==
  (IF uniOk THEN UniversityQuery(univ) ELSE <<>>) \o (IF pubOk THEN PublicQuery ELSE <<>>)

\* the state a render's fetchEvents / applyFiltersAndSort closes over
Closure(cat, sort, dist, loc, univ) ==
  [cat |-> cat, sort |-> sort, dist |-> dist, loc |-> loc, univ |-> univ]

\* useFocusEffect(useCallback(..., [])) keeps the callbacks of the first render
MountClosure == Closure("ALL", "RECENT", DefaultDistance, 0, NoUniversity)

CurrentClosure ==
  Closure(selectedCategory, selectedSortOption, selectedDistance, userLocation, userUniversity)

\* a fetchEvents call that has run up to its first await
NewFetch(cl) == [cl |-> cl, pc |-> "auth", combined |-> <<>>, uniOk |-> TRUE,
                 pubOk |-> TRUE, stale |-> FALSE]

NoFetch == [outcome |-> "none", uniOk |-> TRUE, pubOk |-> TRUE,
            univ |-> NoUniversity, stale |-> FALSE]
NoMeasure == [lat1 |-> 0, lon1 |-> 0, lat2 |-> 0, lon2 |-> 0, there |-> 0, back |-> 0,
              done |-> FALSE]
NoRun == [input |-> <<>>, cat |-> "ALL", sort |-> "RECENT", dist |-> DefaultDistance,
          loc |-> 0, output |-> <<>>, after |-> <<>>, filtered |-> <<>>, ran |-> FALSE]

\* The screen after its first render and the first useFocusEffect callback:
\* getUserLocation() and fetchEvents() are in flight.
InitScreen ==
  /\ events = <<>>
  /\ filteredEvents = <<>>
  /\ loading = TRUE
  /\ selectedCategory = "ALL"
  /\ selectedSortOption = "RECENT"
  /\ selectedDistance = DefaultDistance
  /\ userUniversity = NoUniversity
  /\ userLocation = 0
  /\ fetches = <<NewFetch(MountClosure)>>
  /\ locPending = 1
  /\ actions = 0
  /\ lastFetch = NoFetch

\* MapScreen after its first render: getLocation() of the mount effect is
\* in flight, userLocation is null and no fetchEvents call was issued
InitMapScreen ==
  /\ mapEvents = {}
  /\ mapUserLocation = 0
  /\ mapFetches = <<>>
  /\ mapLocating = 1
  /\ mapStarted = FALSE
  /\ mapActions = 0

\* the state a render of HomeScreen hands to its fetchEvents
HomeClosure(cat, univ) == [cat |-> cat, univ |-> univ]

\* HomeScreen after its first render: the effect on [selectedCategory] and the
\* useFocusEffect callback have each called fetchEvents()
InitHomeScreen ==
  /\ homeEvents = {}
  /\ homeCategory = "ALL"
  /\ homeUserUniversity = NoUniversity
  /\ homeLoading = TRUE
  /\ homeFetches = <<HomeClosure("ALL", NoUniversity), HomeClosure("ALL", NoUniversity)>>
  /\ homeActions = 0

\* null session, and no auth event delivered yet
NoSession == 0
NoEvent == -1
Sessions == 0..NumSessions

\* {!session ? <auth stack> : <MainApp>}
Rendered(s) == IF s = NoSession THEN "auth" ELSE "main"

\* AppComponent after its first render and its mount effect: getSession() is
\* called and the onAuthStateChange callback is subscribed
InitAppRoot ==
  /\ session = NoSession
  /\ mounted = Rendered(NoSession)
  /\ authSession = NoSession
  /\ getSession = [pc |-> "called", value |-> NoSession]
  /\ authEvents = <<>>
  /\ lastAuthEvent = NoEvent
  /\ authChanges = 0

\* useState('') title and description, 'OTHER' category, new Date(), null location
EmptyFields ==
  [title |-> "", description |-> "", category |-> "OTHER", startDate |-> Today,
   location |-> 0]

\* no handleSubmit call in flight
NoCall ==
  [pc |-> "idle", title |-> "", description |-> "", location |-> 0,
   user |-> FALSE, profile |-> FALSE]

\* CreateEventScreen after its first render
InitFormScreen ==
  /\ formFields = EmptyFields
  /\ formLoading = FALSE
  /\ formCall = NoCall
  /\ formInserts = 0
  /\ formOutcome = "none"
  /\ formNavigated = "none"
  /\ formActions = 0
  /\ formSubmits = 0

\* the screens and functions a behaviour leaves alone
FeedIdle ==
  /\ revision = 1
  /\ backend = EventIds
  /\ InitScreen
  /\ run = NoRun
DistanceIdle == measure = NoMeasure
MapIdle == InitMapScreen
HomeIdle == InitHomeScreen
AppIdle == InitAppRoot
FormIdle == formRevision = 1 /\ InitFormScreen

Init ==
  /\ revision \in {1, 2}
  /\ backend \in Backends
  /\ InitScreen
  /\ run = NoRun
  /\ DistanceIdle
  /\ MapIdle
  /\ HomeIdle
  /\ AppIdle
  /\ FormIdle

\* ---------------------------------------------------------------- coordinator
\* useEffect(() => { if (events.length > 0) applyFiltersAndSort(events) }, deps)
\* run after a render in which a dependency changed; evs is the events state
\* of that render, the other arguments the new filter state.
Lists(r) == [events |-> r.input, filteredEvents |-> r.output]

Effect(evs, fe, cat, sort, dist, loc) ==
  IF Len(evs) > 0
  THEN Lists(applyFiltersAndSort(revision, evs, cat, sort, dist, loc))
  ELSE [events |-> evs, filteredEvents |-> fe]

\* setEvents(combinedEvents); applyFiltersAndSort(combinedEvents) of closure cl
Publish(combined, cl) ==
  Lists(applyFiltersAndSort(revision, combined, cl.cat, cl.sort, cl.dist, cl.loc))

\* setEvents / setFilteredEvents of one pass
SetLists(p) ==
  /\ events' = p.events
  /\ filteredEvents' = p.filteredEvents

RemoveAt(s, i) == SubSeq(s, 1, i - 1) \o SubSeq(s, i + 1, Len(s))

\* the calls left in flight once call i has published: those started before
\* it now hold a superseded result
AfterPublish(i) ==
  LET marked == [j \in 1..Len(fetches) |->
                   IF j < i THEN [fetches[j] EXCEPT !.stale = TRUE] ELSE fetches[j]]
  IN RemoveAt(marked, i)

\* ------------------------------------------------------------------- actions
\* the screen regains focus; useFocusEffect callback: getUserLocation();
\* fetchEvents() of the first render
Focus ==
  /\ actions < MaxActions
  /\ Len(fetches) < MaxInFlight
  /\ locPending < MaxLocPending
  /\ actions' = actions + 1
  /\ locPending' = locPending + 1
  /\ loading' = TRUE
  /\ fetches' = Append(fetches, NewFetch(MountClosure))
  /\ lastFetch' = NoFetch
  /\ UNCHANGED <<outsideFeed, revision, backend, events, filteredEvents, selectedCategory,
                 selectedSortOption, selectedDistance, userUniversity, userLocation,
                 run>>

\* RefreshControl onRefresh={fetchEvents}: fetchEvents of the current render;
\* the control does not fire while refreshing={loading} is true
Refresh ==
  /\ actions < MaxActions
  /\ ~loading
  /\ Len(fetches) < MaxInFlight
  /\ actions' = actions + 1
  /\ loading' = TRUE
  /\ fetches' = Append(fetches, NewFetch(CurrentClosure))
  /\ lastFetch' = NoFetch
  /\ UNCHANGED <<outsideFeed, revision, backend, events, filteredEvents, selectedCategory,
                 selectedSortOption, selectedDistance, userUniversity, userLocation,
                 locPending, run>>

\* variant: the catch block also clears the lists
CaughtClearsLists(i) ==
  /\ fetches' = RemoveAt(fetches, i)
  /\ loading' = FALSE
  /\ lastFetch' = [outcome |-> "alert", uniOk |-> TRUE, pubOk |-> TRUE,
                   univ |-> fetches[i].cl.univ, stale |-> fetches[i].stale]
  /\ events' = <<>>
  /\ filteredEvents' = <<>>

\* throw userError -> catch: console.error, Alert.alert; finally: setLoading(false)
Caught(i) ==
  /\ fetches' = RemoveAt(fetches, i)
  /\ loading' = FALSE
  /\ lastFetch' = [outcome |-> "alert", uniOk |-> TRUE, pubOk |-> TRUE,
                   univ |-> fetches[i].cl.univ, stale |-> fetches[i].stale]
  /\ UNCHANGED <<events, filteredEvents>>

\* fetchEvents: auth.getUser() and the profiles query resolve
FetchAuth(i) ==
  /\ i \in 1..Len(fetches)
  /\ fetches[i].pc = "auth"
  /\ \E res \in {"error", "nouser", "user"} :
       IF res = "error"
       THEN /\ Caught(i)
            /\ UNCHANGED userUniversity
       ELSE /\ fetches' = [fetches EXCEPT ![i].pc = "query"]
            /\ userUniversity' = IF res = "user" THEN ProfileUniversity ELSE userUniversity
            /\ lastFetch' = NoFetch
            /\ UNCHANGED <<loading, events, filteredEvents>>
  /\ UNCHANGED <<outsideFeed, revision, backend, selectedCategory,
                 selectedSortOption, selectedDistance, userLocation, locPending,
                 actions, run>>

\* the end of fetchEvents: setEvents, applyFiltersAndSort, finally setLoading(false)
Complete(i, uniOk, pubOk, p) ==
  /\ SetLists(p)
  /\ loading' = FALSE
  /\ fetches' = AfterPublish(i)
  /\ lastFetch' = [outcome |-> "published", uniOk |-> uniOk, pubOk |-> pubOk,
                   univ |-> fetches[i].cl.univ, stale |-> fetches[i].stale]

\* fetchEvents once combinedEvents is built, under its closure cl
Queried(i, uniOk, pubOk, cl, combined) ==
  IF cl.sort = "NEARBY" /\ cl.loc = 0
  THEN \* await getUserLocation()
       /\ fetches' = [fetches EXCEPT ![i] = [@ EXCEPT !.pc = "loc",
                         !.combined = combined, !.uniOk = uniOk, !.pubOk = pubOk]]
       /\ lastFetch' = NoFetch
       /\ UNCHANGED <<events, filteredEvents, loading>>
  ELSE Complete(i, uniOk, pubOk, Publish(combined, cl))

\* fetchEvents: Promise.all([universityQuery, publicQuery]) resolves; a failed
\* query resolves with data: null
FetchQuery(i) ==
  /\ i \in 1..Len(fetches)
  /\ fetches[i].pc = "query"
  /\ \E uniOk \in BOOLEAN, pubOk \in BOOLEAN :
       Queried(i, uniOk, pubOk, fetches[i].cl,
               CombinedEvents(fetches[i].cl.univ, uniOk, pubOk))
  /\ UNCHANGED <<outsideFeed, revision, backend, selectedCategory, selectedSortOption, selectedDistance,
                 userUniversity, userLocation, locPending, actions, run>>

\* what the awaited getUserLocation() leaves on the screen once fetchEvents
\* has published p: p, or the pass of the effect over it
Resumed(p, res, batched) ==
  IF res # 0 /\ batched
  THEN Effect(p.events, p.filteredEvents, selectedCategory, selectedSortOption,
              selectedDistance, res)
  ELSE p

\* fetchEvents: the awaited getUserLocation() returns (res = 0: permission
\* denied or an error).  The render that setUserLocation schedules runs the
\* effect either before the call resumes (its result is then overwritten) or,
\* when the updates are batched, after it.
FetchLocation(i) ==
  /\ i \in 1..Len(fetches)
  /\ fetches[i].pc = "loc"
  /\ \E res \in {0} \cup DevicePositions, batched \in BOOLEAN :
       /\ userLocation' = IF res = 0 THEN userLocation ELSE res
       /\ Complete(i, fetches[i].uniOk, fetches[i].pubOk,
                   Resumed(Publish(fetches[i].combined, fetches[i].cl), res, batched))
  /\ UNCHANGED <<outsideFeed, revision, backend, selectedCategory, selectedSortOption, selectedDistance,
                 userUniversity, locPending, actions, run>>

\* a stand-alone getUserLocation() returns
LocationResolved ==
  /\ locPending > 0
  /\ locPending' = locPending - 1
  /\ lastFetch' = NoFetch
  /\ \E res \in {0} \cup DevicePositions :
       IF res = 0
       THEN UNCHANGED <<userLocation, events, filteredEvents>>
       ELSE /\ userLocation' = res
            /\ SetLists(Effect(events, filteredEvents, selectedCategory,
                               selectedSortOption, selectedDistance, res))
  /\ UNCHANGED <<outsideFeed, revision, backend, loading, selectedCategory, selectedSortOption,
                 selectedDistance, userUniversity, fetches, actions, run>>

\* category pill: setSelectedCategory(category)
SelectCategory(c) ==
  /\ actions < MaxActions
  /\ c \in SelectableCategories
  /\ c # selectedCategory
  /\ actions' = actions + 1
  /\ selectedCategory' = c
  /\ lastFetch' = NoFetch
  /\ SetLists(Effect(events, filteredEvents, c, selectedSortOption,
                     selectedDistance, userLocation))
  /\ UNCHANGED <<outsideFeed, revision, backend, loading, selectedSortOption, selectedDistance,
                 userUniversity, userLocation, fetches, locPending, run>>

\* sort option: setSelectedSortOption(option) and, for NEARBY, getUserLocation()
SelectSort(o) ==
  LET wantsLocation == IF revision = 1 THEN o = "NEARBY" /\ userLocation = 0
                       ELSE o = "NEARBY"
  IN /\ actions < MaxActions
     /\ o \in Range(SORT_OPTIONS)
     /\ o # selectedSortOption \/ wantsLocation
     /\ wantsLocation => locPending < MaxLocPending
     /\ actions' = actions + 1
     /\ selectedSortOption' = o
     /\ locPending' = IF wantsLocation THEN locPending + 1 ELSE locPending
     /\ lastFetch' = NoFetch
     /\ IF o # selectedSortOption
        THEN SetLists(Effect(events, filteredEvents, selectedCategory, o,
                             selectedDistance, userLocation))
        ELSE UNCHANGED <<events, filteredEvents>>
     /\ UNCHANGED <<outsideFeed, revision, backend, loading, selectedCategory, selectedDistance,
                    userUniversity, userLocation, fetches, run>>

\* first revision, distance dropdown (shown with NEARBY): setSelectedDistance
SelectDistance(d) ==
  /\ actions < MaxActions
  /\ revision = 1
  /\ selectedSortOption = "NEARBY"
  /\ d \in Range(DISTANCE_OPTIONS(revision))
  /\ d # selectedDistance
  /\ actions' = actions + 1
  /\ selectedDistance' = d
  /\ lastFetch' = NoFetch
  /\ SetLists(Effect(events, filteredEvents, selectedCategory,
                     selectedSortOption, d, userLocation))
  /\ UNCHANGED <<outsideFeed, revision, backend, loading, selectedCategory, selectedSortOption,
                 userUniversity, userLocation, fetches, locPending, run>>

\* second revision, radius pill (hidden with NEARBY): cycles 1, 2, 5 miles and
\* calls getUserLocation()
ToggleDistance ==
  LET d == IF selectedDistance = 10 THEN 20
           ELSE IF selectedDistance = 20 THEN 50 ELSE 10
  IN /\ actions < MaxActions
     /\ revision = 2
     /\ selectedSortOption # "NEARBY"
     /\ locPending < MaxLocPending
     /\ actions' = actions + 1
     /\ selectedDistance' = d
     /\ locPending' = locPending + 1
     /\ lastFetch' = NoFetch
     /\ SetLists(Effect(events, filteredEvents, selectedCategory,
                        selectedSortOption, d, userLocation))
     /\ UNCHANGED <<outsideFeed, revision, backend, loading, selectedCategory, selectedSortOption,
                    userUniversity, userLocation, fetches, run>>

\* empty-state button: the first revision resets category, sort and distance;
\* the second resets category and sort and calls fetchEvents() of the render
\* in which the button was pressed
ResetFilters ==
  LET d == IF revision = 1 THEN DefaultDistance ELSE selectedDistance
      changed == selectedCategory # "ALL" \/ selectedSortOption # "RECENT"
                 \/ selectedDistance # d
  IN /\ actions < MaxActions
     /\ Len(filteredEvents) = 0
     /\ ~loading
     /\ revision = 1 => changed
     /\ revision = 2 => Len(fetches) < MaxInFlight
     /\ actions' = actions + 1
     /\ selectedCategory' = "ALL"
     /\ selectedSortOption' = "RECENT"
     /\ selectedDistance' = d
     /\ lastFetch' = NoFetch
     /\ IF revision = 2
        THEN /\ fetches' = Append(fetches, NewFetch(CurrentClosure))
             /\ loading' = TRUE
        ELSE UNCHANGED <<fetches, loading>>
     /\ IF changed
        THEN SetLists(Effect(events, filteredEvents, "ALL", "RECENT", d, userLocation))
        ELSE UNCHANGED <<events, filteredEvents>>
     /\ UNCHANGED <<outsideFeed, revision, backend, userUniversity, userLocation, locPending, run>>

Next ==
  \/ Focus
  \/ Refresh
  \/ \E i \in 1..MaxInFlight : FetchAuth(i)
  \/ \E i \in 1..MaxInFlight : FetchQuery(i)
  \/ \E i \in 1..MaxInFlight : FetchLocation(i)
  \/ LocationResolved
  \/ \E c \in SelectableCategories : SelectCategory(c)
  \/ \E o \in Range(SORT_OPTIONS) : SelectSort(o)
  \/ \E d \in Range(DISTANCE_OPTIONS(1)) : SelectDistance(d)
  \/ ToggleDistance
  \/ ResetFilters

Spec == Init /\ [][Next]_vars

TypeOK ==
  /\ revision \in {1, 2}
  /\ backend \in Backends
  /\ loading \in BOOLEAN
  /\ selectedCategory \in SelectableCategories
  /\ selectedSortOption \in Range(SORT_OPTIONS)
  /\ selectedDistance \in Range(DISTANCE_OPTIONS(1))
  /\ userLocation \in {0} \cup DevicePositions
  /\ userUniversity \in {ProfileUniversity, NoUniversity}
  /\ Len(fetches) <= MaxInFlight
  /\ locPending \in 0..MaxLocPending
  /\ Range(events) \subseteq backend
  /\ Range(filteredEvents) \subseteq Range(events)

\* ------------------------------------------- applyFiltersAndSort taken alone
\* the lists handed to applyFiltersAndSort: rows in any order, none repeated
InputLists ==
  {s \in UNION {[1..n -> EventIds] : n \in 0..MaxLen} :
     \A i, j \in DOMAIN s : i # j => s[i] # s[j]}

InitPipeline ==
  /\ revision \in {1, 2}
  /\ backend = EventIds
  /\ InitScreen
  /\ \E s \in InputLists : run = [NoRun EXCEPT !.input = s]
  /\ DistanceIdle
  /\ MapIdle
  /\ HomeIdle
  /\ AppIdle
  /\ FormIdle

\* the record of a call that returned r
Ran(cat, sort, dist, loc, r) ==
  [input |-> run.input, cat |-> cat, sort |-> sort, dist |-> dist,
   loc |-> loc, output |-> r.output, after |-> r.input, filtered |-> r.filtered,
   ran |-> TRUE]

\* one call of applyFiltersAndSort(run.input) under the given filter state
ApplyRun(cat, sort, dist, loc) ==
  /\ ~run.ran
  /\ cat \in Range(CATEGORIES)
  /\ sort \in Range(SORT_OPTIONS)
  /\ dist \in Range(DISTANCE_OPTIONS(revision))
  /\ loc \in {0} \cup Positions
  /\ run' = Ran(cat, sort, dist, loc,
                 applyFiltersAndSort(revision, run.input, cat, sort, dist, loc))
  /\ UNCHANGED <<outsideFeed, revision, backend, events, filteredEvents, loading, selectedCategory,
                 selectedSortOption, selectedDistance, userUniversity, userLocation,
                 fetches, locPending, actions, lastFetch>>

NextPipeline ==
  \E cat \in Range(CATEGORIES), sort \in Range(SORT_OPTIONS),
     dist \in Range(DISTANCE_OPTIONS(1)), loc \in {0} \cup Positions :
       ApplyRun(cat, sort, dist, loc)

SpecPipeline == InitPipeline /\ [][NextPipeline]_vars

\* ---------------------------------------------- calculateDistance taken alone
Coords == -MaxCoord..MaxCoord

InitDistance ==
  /\ FeedIdle
  /\ MapIdle
  /\ HomeIdle
  /\ AppIdle
  /\ FormIdle
  /\ \E lat1 \in Coords, lon1 \in Coords, lat2 \in Coords, lon2 \in Coords :
       measure = [NoMeasure EXCEPT !.lat1 = lat1, !.lon1 = lon1,
                                   !.lat2 = lat2, !.lon2 = lon2]

\* calculateDistance from the first point to the second, and back
Measure ==
  /\ ~measure.done
  /\ measure' = [measure EXCEPT
       !.there = calculateDistance(measure.lat1, measure.lon1, measure.lat2, measure.lon2),
       !.back = calculateDistance(measure.lat2, measure.lon2, measure.lat1, measure.lon1),
       !.done = TRUE]
  /\ UNCHANGED outsideDistance

NextDistance == Measure

SpecDistance == InitDistance /\ [][NextDistance]_vars

\* ----------------------------------------------------------------- map screen
\* useState(10): searchRadius, 10 km, in tenths of a mile
SearchRadius == 62

\* rpc('get_events_within_radius', {user_lat, user_lng, radius_km}): the rows
\* within the radius of the position
MapRows(loc) == {e \in EventIds : WithinRadius(e, SearchRadius, loc)}

\* setUserLocation(position) and the render it schedules: the effect on
\* [userLocation, searchRadius] calls fetchEvents(), and so does the
\* useFocusEffect callback when the screen is focused
LocationSet(p, focused) ==
  /\ Len(mapFetches) + (IF focused THEN 2 ELSE 1) <= MaxMapInFlight
  /\ mapUserLocation' = p
  /\ mapFetches' = mapFetches \o (IF focused THEN <<p, p>> ELSE <<p>>)
  /\ mapStarted' = TRUE

\* getLocation() or searchLocation() returns: a position, or nothing
\* (permission denied, no geocoding result, an exception)
MapLocated ==
  /\ mapLocating > 0
  /\ mapLocating' = mapLocating - 1
  /\ \E p \in {0} \cup Positions, focused \in BOOLEAN :
       IF p = 0
       THEN UNCHANGED <<mapUserLocation, mapFetches, mapStarted>>
       ELSE LocationSet(p, focused)
  /\ UNCHANGED <<outsideMap, mapEvents, mapActions>>

\* the recenter button (getLocation) or the search button of the address
\* modal (searchLocation): an asynchronous lookup starts
MapLocate ==
  /\ mapActions < MaxMapActions
  /\ mapLocating < MaxMapLocating
  /\ mapActions' = mapActions + 1
  /\ mapLocating' = mapLocating + 1
  /\ UNCHANGED <<outsideMap, mapEvents, mapUserLocation, mapFetches, mapStarted>>

\* setCustomLocation with valid coordinates
MapCustomLocation(p) ==
  /\ mapActions < MaxMapActions
  /\ p \in Positions
  /\ mapActions' = mapActions + 1
  /\ LocationSet(p, TRUE)
  /\ UNCHANGED <<outsideMap, mapEvents, mapLocating>>

\* the screen regains focus: if (userLocation) fetchEvents()
MapFocus ==
  /\ mapActions < MaxMapActions
  /\ mapUserLocation # 0
  /\ Len(mapFetches) < MaxMapInFlight
  /\ mapActions' = mapActions + 1
  /\ mapFetches' = Append(mapFetches, mapUserLocation)
  /\ mapStarted' = TRUE
  /\ UNCHANGED <<outsideMap, mapEvents, mapUserLocation, mapLocating>>

\* the rpc of call i resolves: setEvents(data || []), or throw error -> catch
MapFetched(i) ==
  /\ i \in 1..Len(mapFetches)
  /\ mapFetches' = RemoveAt(mapFetches, i)
  /\ \E ok \in BOOLEAN :
       mapEvents' = IF ok THEN MapRows(mapFetches[i]) ELSE mapEvents
  /\ UNCHANGED <<outsideMap, mapUserLocation, mapLocating, mapStarted, mapActions>>

InitMap ==
  /\ FeedIdle
  /\ DistanceIdle
  /\ InitMapScreen
  /\ HomeIdle
  /\ AppIdle
  /\ FormIdle

NextMap ==
  \/ MapLocated
  \/ MapLocate
  \/ \E p \in Positions : MapCustomLocation(p)
  \/ MapFocus
  \/ \E i \in 1..MaxMapInFlight : MapFetched(i)

SpecMap == InitMap /\ [][NextMap]_vars

TypeOKMap ==
  /\ mapEvents \subseteq EventIds
  /\ mapUserLocation \in {0} \cup Positions
  /\ Len(mapFetches) <= MaxMapInFlight
  /\ mapLocating \in 0..MaxMapLocating
  /\ mapStarted \in BOOLEAN
  /\ mapActions \in 0..MaxMapActions

\* ---------------------------------------------------------------- home screen
\* .gte('start_date', today) and, unless ALL, .eq('category', selectedCategory)
HomeMatches(e, cat) ==
  Ev(e).start_date >= Today /\ (cat = "ALL" \/ Ev(e).category = cat)

\* `query': no university condition when userUniversity is null
HomeQuery(cat) == {e \in EventIds : HomeMatches(e, cat)}
HomeUniversityQuery(cat, univ) ==
  {e \in EventIds : HomeMatches(e, cat) /\ Ev(e).university = univ}
HomePublicQuery(cat) ==
  {e \in EventIds : HomeMatches(e, cat) /\ Ev(e).university = NoUniversity}

\* the events state after a fetchEvents call of closure cl: getUser failed
\* (throw, catch logs), or the combined branch ran (a failed query gives
\* data: null), or the single query ran (its error is thrown)
HomeResult(cl, res, uniOk, pubOk) ==
  IF res = "error" THEN homeEvents
  ELSE IF cl.univ # NoUniversity
       THEN (IF uniOk THEN HomeUniversityQuery(cl.cat, cl.univ) ELSE {})
              \cup (IF pubOk THEN HomePublicQuery(cl.cat) ELSE {})
       ELSE IF uniOk THEN HomeQuery(cl.cat) ELSE homeEvents

\* fetchEvents call i runs to its end: getUser, the profile (setUserUniversity),
\* the queries, setEvents; finally setLoading(false)
HomeFetched(i) ==
  /\ i \in 1..Len(homeFetches)
  /\ \E res \in {"error", "nouser", "user"}, uniOk \in BOOLEAN, pubOk \in BOOLEAN :
       /\ homeUserUniversity' =
            IF res = "user" THEN ProfileUniversity ELSE homeUserUniversity
       /\ homeEvents' = HomeResult(homeFetches[i], res, uniOk, pubOk)
  /\ homeLoading' = FALSE
  /\ homeFetches' = RemoveAt(homeFetches, i)
  /\ UNCHANGED <<outsideHome, homeCategory, homeActions>>

\* category pill: setSelectedCategory(category); the effect on
\* [selectedCategory] calls fetchEvents() of the new render
HomeSelectCategory(c) ==
  /\ homeActions < MaxHomeActions
  /\ Len(homeFetches) < MaxHomeInFlight
  /\ c \in SelectableCategories
  /\ c # homeCategory
  /\ homeActions' = homeActions + 1
  /\ homeCategory' = c
  /\ homeLoading' = TRUE
  /\ homeFetches' = Append(homeFetches, HomeClosure(c, homeUserUniversity))
  /\ UNCHANGED <<outsideHome, homeEvents, homeUserUniversity>>

\* the screen regains focus: useFocusEffect(useCallback(..., [])) calls the
\* fetchEvents of the first render
HomeFocus ==
  /\ homeActions < MaxHomeActions
  /\ Len(homeFetches) < MaxHomeInFlight
  /\ homeActions' = homeActions + 1
  /\ homeLoading' = TRUE
  /\ homeFetches' = Append(homeFetches, HomeClosure("ALL", NoUniversity))
  /\ UNCHANGED <<outsideHome, homeEvents, homeCategory, homeUserUniversity>>

\* RefreshControl onRefresh={fetchEvents}, not fired while refreshing={loading}
HomeRefresh ==
  /\ homeActions < MaxHomeActions
  /\ ~homeLoading
  /\ Len(homeFetches) < MaxHomeInFlight
  /\ homeActions' = homeActions + 1
  /\ homeLoading' = TRUE
  /\ homeFetches' = Append(homeFetches, HomeClosure(homeCategory, homeUserUniversity))
  /\ UNCHANGED <<outsideHome, homeEvents, homeCategory, homeUserUniversity>>

InitHome ==
  /\ FeedIdle
  /\ DistanceIdle
  /\ MapIdle
  /\ InitHomeScreen
  /\ AppIdle
  /\ FormIdle

NextHome ==
  \/ \E i \in 1..MaxHomeInFlight : HomeFetched(i)
  \/ \E c \in SelectableCategories : HomeSelectCategory(c)
  \/ HomeFocus
  \/ HomeRefresh

SpecHome == InitHome /\ [][NextHome]_vars

TypeOKHome ==
  /\ homeEvents \subseteq EventIds
  /\ homeCategory \in SelectableCategories
  /\ homeUserUniversity \in {NoUniversity, ProfileUniversity}
  /\ homeLoading \in BOOLEAN
  /\ Len(homeFetches) <= MaxHomeInFlight
  /\ homeActions \in 0..MaxHomeActions

\* ------------------------------------------------------------------- app root
\* the auth client's session changes (sign-in, sign-out, token refresh) and
\* the client queues the event for its subscribers
AuthChange(s) ==
  /\ authChanges < MaxAuthChanges
  /\ s \in Sessions
  /\ s # authSession
  /\ authChanges' = authChanges + 1
  /\ authSession' = s
  /\ authEvents' = Append(authEvents, s)
  /\ UNCHANGED <<outsideApp, session, mounted, getSession, lastAuthEvent>>

\* getSession() reads the client's session; its promise is not yet resolved
GetSessionRead ==
  /\ getSession.pc = "called"
  /\ getSession' = [pc |-> "read", value |-> authSession]
  /\ UNCHANGED <<outsideApp, session, mounted, authSession, authEvents, lastAuthEvent,
                 authChanges>>

\* .then(({ data: { session } }) => setSession(session)), and the render
GetSessionResolved ==
  /\ getSession.pc = "read"
  /\ getSession' = [getSession EXCEPT !.pc = "done"]
  /\ session' = getSession.value
  /\ mounted' = Rendered(getSession.value)
  /\ UNCHANGED <<outsideApp, authSession, authEvents, lastAuthEvent, authChanges>>

\* onAuthStateChange((_event, session) => setSession(session)), and the render
AuthEvent ==
  /\ authEvents # <<>>
  /\ authEvents' = Tail(authEvents)
  /\ lastAuthEvent' = Head(authEvents)
  /\ session' = Head(authEvents)
  /\ mounted' = Rendered(Head(authEvents))
  /\ UNCHANGED <<outsideApp, authSession, getSession, authChanges>>

InitApp ==
  /\ FeedIdle
  /\ DistanceIdle
  /\ MapIdle
  /\ HomeIdle
  /\ FormIdle
  /\ session = NoSession
  /\ mounted = Rendered(NoSession)
  /\ authSession \in Sessions
  /\ getSession = [pc |-> "called", value |-> NoSession]
  /\ authEvents = <<>>
  /\ lastAuthEvent = NoEvent
  /\ authChanges = 0

NextApp ==
  \/ \E s \in Sessions : AuthChange(s)
  \/ GetSessionRead
  \/ GetSessionResolved
  \/ AuthEvent

SpecApp == InitApp /\ [][NextApp]_vars

TypeOKApp ==
  /\ session \in Sessions
  /\ mounted \in {"auth", "main"}
  /\ authSession \in Sessions
  /\ getSession.pc \in {"called", "read", "done"}
  /\ getSession.value \in Sessions
  /\ Len(authEvents) <= MaxAuthChanges
  /\ lastAuthEvent \in Sessions \cup {NoEvent}
  /\ authChanges \in 0..MaxAuthChanges

\* --------------------------------------------------------- create-event screen
Titles == {"", "Party"}
Descriptions == {"", "Free pizza"}
FormCategories == {"OTHER", "FOOD"}
StartDates == {Today, Today + 1}
FormLocations == {0, 1}

FormValidTitleOnly(f) == f.title # ""

\* the guard of handleSubmit passes (category is never empty)
FormValid(f) == f.title # "" /\ f.description # "" /\ f.location # 0

\* the user edits one field of the form
FormEdit ==
  /\ formActions < MaxFormActions
  /\ formActions' = formActions + 1
  /\ \/ \E t \in Titles \ {formFields.title} :
          formFields' = [formFields EXCEPT !.title = t]
     \/ \E d \in Descriptions \ {formFields.description} :
          formFields' = [formFields EXCEPT !.description = d]
     \/ \E c \in FormCategories \ {formFields.category} :
          formFields' = [formFields EXCEPT !.category = c]
     \/ \E d \in StartDates \ {formFields.startDate} :
          formFields' = [formFields EXCEPT !.startDate = d]
     \/ \E l \in FormLocations \ {formFields.location} :
          formFields' = [formFields EXCEPT !.location = l]
  /\ UNCHANGED <<outsideForm, formRevision, formLoading, formCall, formInserts,
                 formOutcome, formNavigated, formSubmits>>

\* the submit button (disabled={loading}): handleSubmit up to its first await,
\* or its Alert and early return
FormSubmit ==
  /\ formSubmits < MaxFormSubmits
  /\ ~formLoading
  /\ formSubmits' = formSubmits + 1
  /\ IF FormValid(formFields)
     THEN /\ formLoading' = TRUE
          /\ formCall' = [pc |-> "user", title |-> formFields.title,
                          description |-> formFields.description,
                          location |-> formFields.location,
                          user |-> FALSE, profile |-> FALSE]
          /\ formOutcome' = "pending"
          /\ formNavigated' = "none"
     ELSE /\ formOutcome' = "invalid"
          /\ UNCHANGED <<formLoading, formCall, formNavigated>>
  /\ UNCHANGED <<outsideForm, formRevision, formFields, formInserts, formActions>>

\* a throw: catch shows the Alert, finally setLoading(false)
FormFailed ==
  /\ formOutcome' = "failed"
  /\ formLoading' = FALSE
  /\ formCall' = NoCall
  /\ UNCHANGED <<formFields, formNavigated>>

\* the insert is sent with the fields the call captured
FormInsertIssued(profile) ==
  /\ formCall' = [formCall EXCEPT !.pc = "insert", !.user = TRUE, !.profile = profile]
  /\ formInserts' = formInserts + 1
  /\ UNCHANGED <<formFields, formLoading, formOutcome, formNavigated>>

\* auth.getUser() resolves: an error or no user throws; otherwise revision 1
\* looks the profile up and revision 2 sends the insert
FormUser ==
  /\ formCall.pc = "user"
  /\ \E res \in {"error", "nouser", "user"} :
       IF res # "user"
       THEN FormFailed /\ UNCHANGED formInserts
       ELSE IF formRevision = 1
            THEN /\ formCall' = [formCall EXCEPT !.pc = "profile", !.user = TRUE]
                 /\ UNCHANGED <<formFields, formLoading, formOutcome, formNavigated,
                                formInserts>>
            ELSE FormInsertIssued(FALSE)
  /\ UNCHANGED <<outsideForm, formRevision, formActions, formSubmits>>

\* revision 1: the profile lookup resolves: profileError throws, otherwise
\* the insert is sent
FormProfile ==
  /\ formCall.pc = "profile"
  /\ \E ok \in BOOLEAN :
       IF ok THEN FormInsertIssued(TRUE) ELSE FormFailed /\ UNCHANGED formInserts
  /\ UNCHANGED <<outsideForm, formRevision, formActions, formSubmits>>

\* the insert resolves: an error throws; otherwise revision 1 clears the form
\* and navigates to Feed, revision 2 goes back; finally setLoading(false)
FormInsert ==
  /\ formCall.pc = "insert"
  /\ \E ok \in BOOLEAN :
       IF ok
       THEN /\ formFields' = IF formRevision = 1 THEN EmptyFields ELSE formFields
            /\ formNavigated' = IF formRevision = 1 THEN "Feed" ELSE "back"
            /\ formOutcome' = "success"
            /\ formLoading' = FALSE
            /\ formCall' = NoCall
       ELSE FormFailed
  /\ UNCHANGED <<outsideForm, formRevision, formInserts, formActions, formSubmits>>

InitForm ==
  /\ FeedIdle
  /\ DistanceIdle
  /\ MapIdle
  /\ HomeIdle
  /\ AppIdle
  /\ formRevision \in {1, 2}
  /\ InitFormScreen

NextForm ==
  \/ FormEdit
  \/ FormSubmit
  \/ FormUser
  \/ FormProfile
  \/ FormInsert

SpecForm == InitForm /\ [][NextForm]_vars

TypeOKForm ==
  /\ formRevision \in {1, 2}
  /\ formFields.title \in Titles
  /\ formFields.description \in Descriptions
  /\ formFields.category \in FormCategories
  /\ formFields.startDate \in StartDates
  /\ formFields.location \in FormLocations
  /\ formLoading \in BOOLEAN
  /\ formCall.pc \in {"idle", "user", "profile", "insert"}
  /\ formLoading <=> formCall.pc # "idle"
  /\ formInserts \in 0..MaxFormSubmits
  /\ formOutcome \in {"none", "invalid", "pending", "failed", "success"}
  /\ formNavigated \in {"none", "Feed", "back"}
  /\ formActions \in 0..MaxFormActions
  /\ formSubmits \in 0..MaxFormSubmits

\* ------------------------------------------------------------------- claims
\* the rows a row-by-row reading of the table gives, used to state the claims
PublicUpcoming == {e \in backend : Ev(e).university = NoUniversity /\ Ev(e).start_date >= Today}
HasNumericCoordinate(e) == Ev(e).location.present /\ Ev(e).location.numeric
MilesTenthsFrom(loc, e) ==
  calculateDistance(Position(loc).latitude, Position(loc).longitude,
                    Ev(e).location.latitude, Ev(e).location.longitude)
OfCategory(evs, cat) == SelectSeq(evs, LAMBDA e : cat = "ALL" \/ Ev(e).category = cat)
\* the merged set of the fetchEvents call that the step just taken completed
LastMerged == CombinedEvents(lastFetch.univ, lastFetch.uniOk, lastFetch.pubOk)

\* C1: every event of the merged raw event set is scoped to the caller's
\* organization (the university of the caller's profile) or has no scope.
C1_MergedScopeIsCallersOrPublic ==
  \A i \in 1..Len(events) :
    Ev(events[i]).university \in {ProfileUniversity, NoUniversity}

\* C2: the merged raw event set never holds the same event id twice.
C2_MergedHasNoDuplicateId ==
  \A i, j \in 1..Len(events) : i # j => events[i] # events[j]

\* C3: a fetchEvents call that completes after a call started later has
\* completed does not replace the raw event set or the rendered list.
C3_StaleFetchDoesNotOverwrite ==
  [][(lastFetch'.outcome = "published" /\ lastFetch'.stale)
       => (events' = events /\ filteredEvents' = filteredEvents)]_vars

\* C4: when a fetchEvents call completes, the rendered list is the pipeline
\* applied to the newly merged set under the category, sort strategy, radius
\* and user location current at completion.
C4_PublishedUnderCurrentFilters ==
  lastFetch.outcome = "published" =>
    filteredEvents = applyFiltersAndSort(revision, LastMerged, selectedCategory,
                       selectedSortOption, selectedDistance, userLocation).output

\* C5: once no fetch and no location request is in flight, the rendered list
\* is the pipeline applied to the current raw event set under the latest
\* category, sort strategy, radius and location.
C5_QuiescentListMatchesLatestState ==
  (fetches = <<>> /\ locPending = 0) =>
    filteredEvents = applyFiltersAndSort(revision, events, selectedCategory,
                       selectedSortOption, selectedDistance, userLocation).output

RadiusInEffect(rev, sort) == IF rev = 1 THEN sort = "NEARBY" ELSE sort # "NEARBY"

C8_NearbyInertWithoutLocation ==
  (run.ran /\ run.loc = 0 /\ run.sort = "NEARBY") =>
    run.output = OfCategory(run.input, run.cat)

\* a NEARBY run without location over a list that a distance order would
\* rearrange and that holds an event without coordinate
C8_Witness ==
  /\ run.ran /\ run.loc = 0 /\ run.sort = "NEARBY"
  /\ Len(run.output) >= 2
  /\ \E i \in 1..Len(run.output) : ~HasNumericCoordinate(run.output[i])
  /\ \E i, j \in 1..Len(run.output) :
       /\ i < j
       /\ HasNumericCoordinate(run.output[i]) /\ HasNumericCoordinate(run.output[j])
       /\ MilesTenthsFrom(1, run.output[i]) > MilesTenthsFrom(1, run.output[j])

\* C9: a run of applyFiltersAndSort leaves the events state unchanged: only
\* the completion of a fetchEvents call (setEvents) changes it.
C9_RunLeavesEventsUnchanged ==
  [][lastFetch'.outcome # "published" => events' = events]_vars

\* C10: a fetchEvents call whose organization-scoped query failed while the
\* public query succeeded publishes exactly the public events as the raw
\* event set.
C10_PublicOnlyWhenScopedQueryFails ==
  (lastFetch.outcome = "published" /\ ~lastFetch.uniOk /\ lastFetch.pubOk) =>
    /\ Range(events) = PublicUpcoming
    /\ Len(events) = Cardinality(PublicUpcoming)

\* a completed call of that kind with public events to show
C10_Witness ==
  /\ lastFetch.outcome = "published" /\ ~lastFetch.uniOk /\ lastFetch.pubOk
  /\ Len(events) >= 2
  /\ ~loading

\* C11: a fetchEvents call whose organization-scoped query and public query
\* both failed leaves the rendered list empty and surfaces an error (the
\* alert of the catch block) for that call.
C11_BothFailedEmptiesListAndAlerts ==
  (lastFetch.outcome # "none" /\ ~lastFetch.uniOk /\ ~lastFetch.pubOk) =>
    /\ filteredEvents = <<>>
    /\ lastFetch.outcome = "alert"

\* C12: a fetchEvents call whose get-current-user call returned an
\* authentication failure still publishes the public events as the raw
\* event set.
C12_AuthFailurePublishesPublicEvents ==
  lastFetch.outcome = "alert" =>
    /\ Range(events) = PublicUpcoming
    /\ Len(events) = Cardinality(PublicUpcoming)

\* C13: a fetchEvents call that built its queries with the caller's
\* organization absent publishes only events without scope.
C13_AbsentScopeMergesPublicOnly ==
  (lastFetch.outcome = "published" /\ lastFetch.univ = NoUniversity) =>
    \A i \in 1..Len(events) : Ev(events[i]).university = NoUniversity

\* does an event pass the geo stage of a revision, read from the filter
\* callbacks row by row
KeptByGeo(rev, sort, dist, loc, e) ==
  \/ loc = 0
  \/ rev = 1 /\ sort # "NEARBY"
  \/ /\ HasNumericCoordinate(e)
     /\ RadiusInEffect(rev, sort) => MilesTenthsFrom(loc, e) <= dist

\* the position of x in a list without repetition
IndexIn(s, x) == CHOOSE i \in 1..Len(s) : s[i] = x

\* C14: with category ALL the category stage returns its input unchanged,
\* so the events of the output are exactly the events of the raw list that
\* pass the geo stage.
C14_AllCategoryPassesInputThrough ==
  (run.ran /\ run.cat = "ALL") =>
    /\ CategoryStage(run.input, run.cat) = run.input
    /\ Range(run.output) =
         {e \in Range(run.input) : KeptByGeo(revision, run.sort, run.dist, run.loc, e)}

\* a run under ALL over a list of three events of three categories
C14_Witness ==
  /\ run.ran /\ run.cat = "ALL"
  /\ Len(run.input) = MaxLen
  /\ Cardinality({Ev(e).category : e \in Range(run.input)}) >= 3
  /\ Len(run.output) = Len(run.input)

\* kept holds exactly the events of input whose category is cat, in the
\* order of input
ExactlyOfCategory(input, kept, cat) ==
  /\ \A i \in 1..Len(kept) : kept[i] \in Range(input) /\ Ev(kept[i]).category = cat
  /\ \A i \in 1..Len(input) : Ev(input[i]).category = cat => input[i] \in Range(kept)
  /\ \A i, j \in 1..Len(kept) : i < j => IndexIn(input, kept[i]) < IndexIn(input, kept[j])

\* C15: with a category other than ALL the category stage keeps exactly the
\* events of that category, in their input order; every event of the output
\* has the category and every event of the category that passes the geo
\* stage is in the output.
C15_CategoryKeepsExactlySelected ==
  (run.ran /\ run.cat # "ALL") =>
    /\ ExactlyOfCategory(run.input, CategoryStage(run.input, run.cat), run.cat)
    /\ Range(run.output) =
         {e \in Range(run.input) :
            /\ Ev(e).category = run.cat
            /\ KeptByGeo(revision, run.sort, run.dist, run.loc, e)}

\* a run that kept two events of the selected category and dropped another
\* event that stood between them
C15_Witness ==
  /\ run.ran /\ run.cat # "ALL"
  /\ Len(run.input) = 3
  /\ Ev(run.input[1]).category = run.cat
  /\ Ev(run.input[2]).category # run.cat
  /\ Ev(run.input[3]).category = run.cat
  /\ Len(run.output) = 2

\* C16: filtering by a category a list already filtered by that category
\* returns the same list.
C16_CategoryFilterIdempotent ==
  run.ran =>
    CategoryStage(CategoryStage(run.input, run.cat), run.cat)
      = CategoryStage(run.input, run.cat)

\* a run whose category stage removed some events and kept others
C16_Witness ==
  /\ run.ran /\ run.cat # "ALL"
  /\ CategoryStage(run.input, run.cat) # run.input
  /\ Len(CategoryStage(run.input, run.cat)) >= 2

\* C17: with RECENT the output is ordered by creation time, newest first,
\* and events created at the same time keep the order they had in the input.
C17_RecentNewestFirstStable ==
  (run.ran /\ run.sort = "RECENT") =>
    \A i, j \in 1..Len(run.output) : i < j =>
      /\ Ev(run.output[i]).created_at >= Ev(run.output[j]).created_at
      /\ Ev(run.output[i]).created_at = Ev(run.output[j]).created_at =>
           IndexIn(run.input, run.output[i]) < IndexIn(run.input, run.output[j])

\* a RECENT run that moved an older event behind two events created at the
\* same time
C17_Witness ==
  /\ run.ran /\ run.sort = "RECENT"
  /\ Len(run.output) = 3
  /\ run.output # run.input
  /\ Ev(run.output[1]).created_at = Ev(run.output[2]).created_at
  /\ Ev(run.output[2]).created_at > Ev(run.output[3]).created_at

\* C18: with NEARBY and a user location the output is ordered by distance
\* from the user location, nearest first.
C18_NearbyNearestFirst ==
  (run.ran /\ run.sort = "NEARBY" /\ run.loc # 0) =>
    \A i, j \in 1..Len(run.output) : i < j =>
      /\ HasNumericCoordinate(run.output[i])
      /\ HasNumericCoordinate(run.output[j])
      /\ MilesTenthsFrom(run.loc, run.output[i]) <= MilesTenthsFrom(run.loc, run.output[j])

\* a NEARBY run with a location that brought a nearer event forward and
\* whose input held an event without coordinate
C18_Witness ==
  /\ run.ran /\ run.sort = "NEARBY" /\ run.loc # 0
  /\ Len(run.output) >= 2
  /\ MilesTenthsFrom(run.loc, run.output[1]) < MilesTenthsFrom(run.loc, run.output[2])
  /\ IndexIn(run.input, run.output[1]) > IndexIn(run.input, run.output[2])
  /\ \E i \in 1..Len(run.input) : ~Ev(run.input[i]).location.present

ScenarioBackend == 1..3

\* C20: over that table and for a caller whose profile university is MIT, a
\* fetchEvents call whose queries succeeded publishes exactly the first two
\* events, and with FOOD and RECENT selected the rendered list is the MIT
\* FOOD event alone.
C20_ScenarioMergesTwoAndRendersOne ==
  (/\ backend = ScenarioBackend
   /\ userUniversity = ProfileUniversity
   /\ lastFetch.outcome = "published" /\ lastFetch.uniOk /\ lastFetch.pubOk) =>
    /\ Range(events) = {1, 2}
    /\ Len(events) = 2
    /\ (selectedCategory = "FOOD" /\ selectedSortOption = "RECENT") =>
         filteredEvents = <<1>>

C23_SortComesAfterBothFilters ==
  run.ran =>
    /\ Range(run.filtered) =
         {e \in Range(run.input) :
            /\ run.cat \in {"ALL", Ev(e).category}
            /\ KeptByGeo(revision, run.sort, run.dist, run.loc, e)}
    /\ Range(run.output) = Range(run.filtered)
    /\ (run.sort = "NEARBY" /\ run.loc # 0) =>
         \A i \in 1..Len(run.filtered) : HasNumericCoordinate(run.filtered[i])

\* a NEARBY run with a location whose input held an event of another
\* category, an event without coordinate and two events the sort exchanged
C23_Witness ==
  /\ run.ran /\ run.sort = "NEARBY" /\ run.loc # 0
  /\ \E i \in 1..Len(run.input) : ~HasNumericCoordinate(run.input[i])
  /\ Len(run.filtered) = 2
  /\ run.output = <<run.filtered[2], run.filtered[1]>>

C24_MergedStartsTodayOrLater ==
  \A i \in 1..Len(events) : Ev(events[i]).start_date >= Today

\* a completed call, both queries answered, over a table that holds a past
\* event without scope, which either query would match but for its date
C24_Witness ==
  /\ lastFetch.outcome = "published" /\ lastFetch.uniOk /\ lastFetch.pubOk
  /\ lastFetch.univ = NoUniversity
  /\ \E e \in backend : Ev(e).start_date < Today /\ Ev(e).university = NoUniversity
  /\ Len(events) >= 2

\* C25: loading is false exactly when no fetchEvents call is awaiting a
\* response.
C25_LoadingTracksFetchesInFlight ==
  /\ ~loading => fetches = <<>>
  /\ fetches = <<>> => ~loading

\* C26: a fetchEvents call that ends in its catch block leaves events and
\* filteredEvents as they were, raises the alert and sets loading to false.
C26_CaughtFetchKeepsLists ==
  [][lastFetch'.outcome = "alert" =>
       /\ events' = events
       /\ filteredEvents' = filteredEvents
       /\ ~loading']_vars

\* a call that ended in its catch block on a screen that shows events
C26_Witness ==
  /\ lastFetch.outcome = "alert"
  /\ events # <<>> /\ filteredEvents # <<>>
  /\ ~loading

\* C27: on the map screen, whenever no fetchEvents call is in flight after
\* at least one was issued, the markers shown are the events the backend
\* returns for the current userLocation and searchRadius.
C27_MapShowsEventsOfCurrentLocation ==
  (mapStarted /\ mapFetches = <<>>) => mapEvents = MapRows(mapUserLocation)

\* C28: on the home screen, whenever no fetchEvents call is in flight, every
\* event shown has the selected category, unless ALL is selected.
C28_HomeShowsSelectedCategory ==
  (homeFetches = <<>> /\ homeCategory # "ALL") =>
    \A e \in homeEvents : Ev(e).category = homeCategory

\* C29: in the app root the main tab navigator is mounted exactly when the
\* session state is non-null, and once getSession() has resolved and every
\* auth event has been delivered, the session state is the session of the
\* last event delivered.
C29_SessionFollowsLastAuthEvent ==
  /\ mounted = "main" <=> session # NoSession
  /\ (getSession.pc = "done" /\ authEvents = <<>> /\ lastAuthEvent # NoEvent) =>
       session = lastAuthEvent

\* a handleSubmit call ends by a throw / ends after a successful insert
FormFailureStep == formCall.pc # "idle" /\ formCall'.pc = "idle" /\ formOutcome' = "failed"
FormSuccessStep == formCall.pc = "insert" /\ formCall'.pc = "idle" /\ formOutcome' = "success"

\* a step of handleSubmit that clears the form or navigates
FormResetStep == formCall' # formCall /\ formFields # EmptyFields /\ formFields' = EmptyFields
FormNavigateStep == formNavigated' \in {"Feed", "back"}  /\ formNavigated' # formNavigated

\* the insert is sent for a call that captured a title, a description and a
\* location and whose user was resolved
FormInsertGuarded ==
  formInserts' # formInserts =>
    /\ formCall'.title # "" /\ formCall'.description # "" /\ formCall'.location # 0
    /\ formCall'.user

\* the form is cleared and left only by the step that ends a successful
\* insert; a failing call leaves the fields alone and resets loading
FormResetOnlyOnSuccess ==
  /\ (FormResetStep \/ FormNavigateStep) => FormSuccessStep
  /\ FormFailureStep => formFields' = formFields /\ formLoading' = FALSE

\* C30 as stated: in the create-event screen an insert is issued only when
\* title, description and location are set and the user and their profile
\* were resolved; reset and navigation happen only after a successful insert;
\* a failure keeps the fields and resets loading.
C30_InsertNeedsFieldsUserAndProfile ==
  [][/\ FormInsertGuarded
     /\ formInserts' # formInserts => formCall'.profile
     /\ FormResetOnlyOnSuccess]_vars

\* C30 amended: as above, with the profile resolved before the insert only in
\* the revision that looks it up (FeedScreen.tsx); the other revision sends
\* the insert as soon as the user is resolved.
C30_InsertNeedsFieldsAndUser ==
  [][/\ FormInsertGuarded
     /\ (formInserts' # formInserts /\ formRevision = 1) => formCall'.profile
     /\ FormResetOnlyOnSuccess]_vars

\* a successful submit of the first revision: the insert was sent, the form is
\* cleared and the screen navigated to the feed
C30_Witness ==
  /\ formRevision = 1
  /\ formInserts > 0
  /\ formOutcome = "success"
  /\ formNavigated = "Feed"
  /\ formFields = EmptyFields
  /\ ~formLoading

====
